---- MODULE Spec2Model ----
(***************************************************************************)
(* Authentication and account-security subsystem of the user management   *)
(* service: login-attempt throttling and lockout (security_service.py),    *)
(* password authentication, JWT issue / verification / logout              *)
(* (auth_service.py), the HTTP logout route (main.py), the SMS one-time    *)
(* code login (sms_service.py) and the stored token blacklist.             *)
(*                                                                         *)
(* Time is time.time() in whole seconds.  Exceptions are named by their    *)
(* class; a dictionary returned by the handle_exceptions decorator is      *)
(* named by its error_code.                                                *)
(***************************************************************************)
EXTENDS Integers, Sequences, FiniteSets, TLC

\* ------------------------------------------------------------------------
\* Program constants (config.py)
\* ------------------------------------------------------------------------
MAX_LOGIN_ATTEMPTS == 5
LOGIN_LOCKOUT_MINUTES == 15
JWT_EXPIRATION_HOURS == 24

SUPER_ADMIN_PHONE == "13800000000"
SUPER_ADMIN_PASSWORD == "admin123456"
JWT_SECRET_KEY == "your-super-secret-jwt-key-change-in-production"

\* ------------------------------------------------------------------------
\* Bounds of the model
\* ------------------------------------------------------------------------
\* the clock advances in steps of TickSeconds, up to MaxTime
TickSeconds == 300
MaxTime == 900
\* longest run of failed record_login_attempt calls that is explored
MaxStreak == 6
\* where tokens are followed the clock advances in steps of TokenTickSeconds,
\* up to MaxTokenTime, and at most MaxTokens tokens are handed out
TokenTickSeconds == 57600
MaxTokenTime == 115200
MaxTokens == 2
\* where SMS codes are followed the clock advances in steps of
\* SmsTickSeconds, up to MaxSmsTime
SmsTickSeconds == 30
MaxSmsTime == 90
\* where the age of an SMS code is followed the clock advances in steps of
\* SmsLongTickSeconds, up to MaxSmsLongTime
SmsLongTickSeconds == 150
MaxSmsLongTime == 450
\* the ids the users table hands out
MaxUserId == 3

\* identifiers handed to the SecurityService; "" is the blank identifier
FreshPhone == "13900000001"
Identifiers == {SUPER_ADMIN_PHONE, FreshPhone, ""}

\* request-handling threads of the server
Workers == {"w1", "w2"}
Passwords == {SUPER_ADMIN_PASSWORD, "wrong-password", ""}
\* the phones that overlapping authenticate_user calls are made for
RacePhones == {SUPER_ADMIN_PHONE, ""}

VARIABLES
    now,             \* time.time()
    login_attempts,  \* SecurityService._login_attempts
    ret,             \* the last SecurityService call and what it returned
    streak,          \* history: consecutive failed recordings per identifier
    users,           \* the users table, keyed by phone_number
    users_sequence,  \* the largest id the users table has handed out
    pc,              \* where each worker stands in authenticate_user
    frame,           \* the locals of each worker's authenticate_user call
    outcome,         \* what the last finished authenticate_user call did
    lock_seen,       \* history: when the lock last reported to
                     \* authenticate_user by is_account_locked was set
    issued,          \* the tokens generate_jwt_token has handed out
    jwt_blacklist,   \* SecurityService._jwt_blacklist
    logged_out,      \* history: the tokens logout_user has accepted
    verdict,         \* the last token or account operation and what it
                     \* returned
    jwt_blacklist_table, \* the jwt_blacklist table of the database
    TEMP_STORAGE,    \* sms_service.TEMP_STORAGE
    sms_call,        \* where each worker stands in verify_sms_and_login,
                     \* and the locals of that call
    reply,           \* the last finished sms_service call and its result
    accepted,        \* history: per phone, the verify_sms_and_login calls
                     \* that returned a token since the last code was sent
    sent_at          \* history: per phone, time.time() of the last
                     \* send_verification_code that succeeded (-1: none)

guardVars == <<now, login_attempts, ret, streak>>
authVars == <<users, users_sequence, pc, frame, outcome, lock_seen>>
tokenVars == <<issued, jwt_blacklist, logged_out, verdict,
               jwt_blacklist_table>>
smsVars == <<TEMP_STORAGE, sms_call, reply, accepted, sent_at>>
vars == <<now, login_attempts, ret, streak, users, users_sequence, pc, frame,
          outcome,
          lock_seen, issued, jwt_blacklist, logged_out, verdict,
          jwt_blacklist_table, TEMP_STORAGE, sms_call, reply, accepted,
          sent_at>>

\* ------------------------------------------------------------------------
\* SecurityService: login attempts (security_service.py)
\* ------------------------------------------------------------------------
\* `not identifier or not identifier.strip()`
is_blank(identifier) == identifier \in {"", " "}

new_attempt_data(current_time) ==
    [failed_count |-> 0, last_attempt |-> current_time, locked_until |-> 0]

\* a faulty build of lines 48-51 that clears the lock but keeps the count
record_login_attempt_enter_keep(attempts, identifier, success, current_time) ==
    LET a0 == IF identifier \in DOMAIN attempts
              THEN attempts
              ELSE attempts @@ (identifier :> new_attempt_data(current_time))
        d1 == [a0[identifier] EXCEPT !.last_attempt = current_time]
        d2 == IF success THEN [d1 EXCEPT !.locked_until = 0] ELSE d1
    IN  [a0 EXCEPT ![identifier] = d2]

\* lines 38-52: create the record when missing, stamp last_attempt, and on
\* success reset the counters.  On failure the record is left for the
\* increment that follows.
record_login_attempt_enter(attempts, identifier, success, current_time) ==
    LET a0 == IF identifier \in DOMAIN attempts
              THEN attempts
              ELSE attempts @@ (identifier :> new_attempt_data(current_time))
        d1 == [a0[identifier] EXCEPT !.last_attempt = current_time]
        d2 == IF success
              THEN [d1 EXCEPT !.failed_count = 0, !.locked_until = 0]
              ELSE d1
    IN  [a0 EXCEPT ![identifier] = d2]

\* the comparison a faulty build would make at line 61
reaches_threshold_strict(failed_count) == failed_count > MAX_LOGIN_ATTEMPTS

\* line 61: `failed_count >= config.MAX_LOGIN_ATTEMPTS`
reaches_threshold(failed_count) == failed_count >= MAX_LOGIN_ATTEMPTS

\* lines 55-64: store failed_count = read_count + 1 and lock the account when
\* the stored count reaches the threshold.
record_login_attempt_store(attempts, identifier, read_count, current_time) ==
    LET d1 == [attempts[identifier] EXCEPT !.failed_count = read_count + 1]
        d2 == IF reaches_threshold(d1.failed_count)
              THEN [d1 EXCEPT !.locked_until =
                                 current_time + LOGIN_LOCKOUT_MINUTES * 60]
              ELSE d1
    IN  [attempts EXCEPT ![identifier] = d2]

\* lines 35-64, run without interruption
record_login_attempt(attempts, identifier, success, current_time) ==
    LET a1 == record_login_attempt_enter(attempts, identifier, success,
                                         current_time)
    IN  IF success
        THEN a1
        ELSE record_login_attempt_store(a1, identifier,
                                        a1[identifier].failed_count,
                                        current_time)

\* a faulty build of line 92 that reports a lock only past the threshold
is_account_locked_past_threshold(attempts, identifier, current_time) ==
    IF identifier \notin DOMAIN attempts
    THEN [locked |-> FALSE, attempts |-> attempts]
    ELSE LET d == attempts[identifier] IN
         IF d.locked_until > 0 /\ current_time >= d.locked_until
         THEN [locked |-> FALSE,
               attempts |-> [attempts EXCEPT ![identifier] =
                               [d EXCEPT !.failed_count = 0,
                                         !.locked_until = 0]]]
         ELSE [locked |-> d.locked_until > current_time
                            /\ d.failed_count > MAX_LOGIN_ATTEMPTS,
               attempts |-> attempts]

\* a faulty build of lines 87-89 that clears the expired lock but keeps the
\* count
is_account_locked_keeps_count(attempts, identifier, current_time) ==
    IF identifier \notin DOMAIN attempts
    THEN [locked |-> FALSE, attempts |-> attempts]
    ELSE LET d == attempts[identifier] IN
         IF d.locked_until > 0 /\ current_time >= d.locked_until
         THEN [locked |-> FALSE,
               attempts |-> [attempts EXCEPT ![identifier] =
                               [d EXCEPT !.locked_until = 0]]]
         ELSE [locked |-> d.locked_until > current_time,
               attempts |-> attempts]

\* lines 79-92: the value returned and the table after the expiry reset
is_account_locked(attempts, identifier, current_time) ==
    IF identifier \notin DOMAIN attempts
    THEN [locked |-> FALSE, attempts |-> attempts]
    ELSE LET d == attempts[identifier] IN
         IF d.locked_until > 0 /\ current_time >= d.locked_until
         THEN [locked |-> FALSE,
               attempts |-> [attempts EXCEPT ![identifier] =
                               [d EXCEPT !.failed_count = 0,
                                         !.locked_until = 0]]]
         ELSE [locked |-> d.locked_until > current_time,
               attempts |-> attempts]

\* lines 103-112
get_remaining_lockout_time(attempts, identifier, current_time) ==
    IF identifier \notin DOMAIN attempts
    THEN 0
    ELSE IF attempts[identifier].locked_until <= current_time
         THEN 0
         ELSE attempts[identifier].locked_until - current_time

\* lines 225-226
reset_login_attempts(attempts, identifier) ==
    [i \in DOMAIN attempts \ {identifier} |-> attempts[i]]

\* ------------------------------------------------------------------------
\* Direct, one-at-a-time use of the SecurityService
\* ------------------------------------------------------------------------
NoCall == [op |-> "none", identifier |-> "", value |-> "none"]

GuardInit ==
    /\ now = 0
    /\ login_attempts = << >>
    /\ ret = NoCall
    /\ streak = [i \in Identifiers |-> 0]

Tick ==
    /\ now + TickSeconds <= MaxTime
    /\ now' = now + TickSeconds
    /\ UNCHANGED <<login_attempts, ret, streak>>
    /\ UNCHANGED <<authVars, tokenVars, smsVars>>

\* record_login_attempt(identifier, success); a blank identifier raises
\* SecurityException, which handle_database_errors turns into
\* DatabaseException
RecordLoginAttempt(identifier, success) ==
    /\ success \/ streak[identifier] < MaxStreak
    /\ IF is_blank(identifier)
       THEN /\ ret' = [op |-> "record_login_attempt",
                       identifier |-> identifier,
                       value |-> "DatabaseException"]
            /\ UNCHANGED <<login_attempts, streak>>
       ELSE /\ login_attempts' = record_login_attempt(login_attempts,
                                     identifier, success, now)
            /\ streak' = [streak EXCEPT ![identifier] =
                             IF success THEN 0 ELSE @ + 1]
            /\ ret' = [op |-> "record_login_attempt",
                       identifier |-> identifier, value |-> "None"]
    /\ UNCHANGED now
    /\ UNCHANGED <<authVars, tokenVars, smsVars>>

IsAccountLocked(identifier) ==
    LET r == is_account_locked(login_attempts, identifier, now) IN
    /\ login_attempts' = r.attempts
    /\ ret' = [op |-> "is_account_locked", identifier |-> identifier,
               value |-> r.locked]
    /\ UNCHANGED <<now, streak>>
    /\ UNCHANGED <<authVars, tokenVars, smsVars>>

GetRemainingLockoutTime(identifier) ==
    /\ ret' = [op |-> "get_remaining_lockout_time",
               identifier |-> identifier,
               value |-> get_remaining_lockout_time(login_attempts,
                                                    identifier, now)]
    /\ UNCHANGED <<now, login_attempts, streak>>
    /\ UNCHANGED <<authVars, tokenVars, smsVars>>

ResetLoginAttempts(identifier) ==
    /\ login_attempts' = reset_login_attempts(login_attempts, identifier)
    /\ streak' = [streak EXCEPT ![identifier] = 0]
    /\ ret' = [op |-> "reset_login_attempts", identifier |-> identifier,
               value |-> "None"]
    /\ UNCHANGED now
    /\ UNCHANGED <<authVars, tokenVars, smsVars>>

\* ------------------------------------------------------------------------
\* Exceptions (exceptions.py) and the decorators of error_handler.py
\* ------------------------------------------------------------------------
UserManagementExceptions ==
    {"UserManagementException", "DatabaseException",
     "AuthenticationException", "AuthorizationException",
     "ValidationException", "SecurityException", "SMSException",
     "ConfigurationException", "RateLimitException",
     "UserNotFoundException", "DuplicateUserException",
     "AccountLockedException", "TokenBlacklistedException"}

\* AccountLockedException.__init__(self, identifier, remaining_time,
\* details=None): what `AccountLockedException(...)` raises when called with
\* that many positional arguments
AccountLockedException_init(positional) ==
    IF positional \in {2, 3} THEN "AccountLockedException" ELSE "TypeError"

\* AuthenticationException.__init__(self, message, details=None)
AuthenticationException_init(positional, keywords) ==
    IF positional \in {1, 2} /\ keywords \subseteq {"details"}
    THEN "AuthenticationException"
    ELSE "TypeError"

\* handle_exceptions(return_dict=False): a UserManagementException is raised
\* again, anything else becomes UserManagementException (INTERNAL_ERROR)
handle_exceptions_raise(raised) ==
    IF raised \in UserManagementExceptions
    THEN raised
    ELSE "UserManagementException"

\* ------------------------------------------------------------------------
\* Credential store (database_setup.py, seeder.py, auth_service.py)
\* ------------------------------------------------------------------------
NoneHash == << >>
hash_password(password) == <<"bcrypt", password>>

\* bcrypt.checkpw(password.encode(), hashed_password.encode()): None has no
\* encode
verify_password(password, hashed_password) ==
    IF hashed_password = NoneHash
    THEN "AttributeError"
    ELSE IF hashed_password = <<"bcrypt", password>> THEN "True" ELSE "False"

\* seeder.py: the super administrator is the first row of the users table
seed_super_admin ==
    SUPER_ADMIN_PHONE :>
        [id |-> 1, phone_number |-> SUPER_ADMIN_PHONE,
         password_hash |-> hash_password(SUPER_ADMIN_PASSWORD),
         role |-> "SuperAdmin", status |-> "Active"]

\* SELECT ... FROM users WHERE phone_number = ? AND status != 'deleted';
\* the rows found, as the list execute_query returns
get_user_by_phone(table, phone_number) ==
    IF phone_number \in DOMAIN table /\ table[phone_number].status # "deleted"
    THEN <<table[phone_number]>>
    ELSE << >>

\* ------------------------------------------------------------------------
\* authenticate_user (auth_service.py), one call per worker at a time, the
\* calls of different workers interleaved at their accesses to the shared
\* attempt table and to the users table
\* ------------------------------------------------------------------------
\* found: whether get_user_by_phone returned a row (line 167);
\* expired_on_entry: whether the call's lockout check found a lock whose
\* locked_until had passed
NoFrame == [phone |-> "", password |-> "", success |-> FALSE,
            user_id |-> 0, role |-> "", read_count |-> 0, current_time |-> 0,
            locked_on_entry |-> FALSE, found |-> FALSE,
            expired_on_entry |-> FALSE]

\* message: the text of the exception raised; failed_before, failed_after:
\* the identifier's failed_count just before and just after the call
\* recorded its result
NoOutcome == [kind |-> "none", stage |-> "none", phone |-> "",
              password |-> "", user_id |-> 0, role |-> "",
              locked_on_entry |-> FALSE, failed_before |-> -1,
              failed_after |-> -1, found |-> FALSE, message |-> "none",
              expired_on_entry |-> FALSE]

\* lines 187-191: the exceptions authenticate_user lets through and the one
\* it substitutes for every other
authenticate_user_except(raised) ==
    IF raised \in {"ValidationException", "AuthenticationException",
                   "AccountLockedException"}
    THEN raised
    ELSE "DatabaseException"

\* line 164: `raise AccountLockedException("...")`, one positional argument
raise_account_locked ==
    handle_exceptions_raise(
        authenticate_user_except(AccountLockedException_init(1)))

\* lines 172 and 179: `raise AuthenticationException("...")`
raise_authentication_failed ==
    handle_exceptions_raise(
        authenticate_user_except(AuthenticationException_init(1, {})))

\* the text both `raise AuthenticationException(...)` statements carry
MessageBadCredentials == "phone number or password is wrong"

\* a faulty build whose two messages tell the causes apart
authentication_failed_message_revealing(found) ==
    IF found THEN "password is wrong" ELSE "user does not exist"

\* line 172 (no such user) and line 179 (wrong password)
authentication_failed_message(found) ==
    IF found THEN MessageBadCredentials ELSE MessageBadCredentials

Failure(kind, stage, phone, password) ==
    [NoOutcome EXCEPT !.kind = kind, !.stage = stage, !.phone = phone,
                      !.password = password]

\* the lock state of the identifier as the attempt table holds it
LockedNow(phone) ==
    phone \in DOMAIN login_attempts /\ login_attempts[phone].locked_until > now

\* security_service.py line 85: the identifier has a lock whose locked_until
\* has passed
LockExpiredNow(phone) ==
    /\ phone \in DOMAIN login_attempts
    /\ login_attempts[phone].locked_until > 0
    /\ now >= login_attempts[phone].locked_until

\* a faulty build that counts the refused call as one more failed attempt
refuse_locked_and_record(attempts, identifier, current_time) ==
    record_login_attempt(attempts, identifier, FALSE, current_time)

\* lines 162-164: the attempt table when the call is refused as locked;
\* nothing is recorded
refuse_locked(attempts, identifier, current_time) == attempts

\* a faulty build that goes from the lockout check straight to the recording
after_lock_check_skip_lookup == "record"

\* lines 162-167: what an unlocked call does next, get_user_by_phone
after_lock_check == "lookup"

\* lines 155-164: validation, then the lockout check
AuthEnter(w, phone, password) ==
    /\ pc[w] = "idle"
    /\ IF phone = "" \/ password = ""
       THEN /\ outcome' =
                  Failure(handle_exceptions_raise("ValidationException"),
                          "validate", "", "")
            /\ UNCHANGED <<login_attempts, pc, frame, lock_seen>>
       ELSE LET r == is_account_locked(login_attempts, phone, now) IN
            /\ login_attempts' = IF r.locked
                                 THEN refuse_locked(r.attempts, phone, now)
                                 ELSE r.attempts
            /\ IF r.locked
               THEN /\ outcome' =
                          [Failure(raise_account_locked, "locked", phone,
                                   password)
                           EXCEPT !.locked_on_entry = LockedNow(phone)]
                    /\ lock_seen' = [lock_seen EXCEPT ![phone] =
                                        login_attempts[phone].locked_until
                                          - LOGIN_LOCKOUT_MINUTES * 60]
                    /\ UNCHANGED <<pc, frame>>
               ELSE /\ pc' = [pc EXCEPT ![w] = after_lock_check]
                    /\ frame' = [frame EXCEPT ![w] =
                          [NoFrame EXCEPT !.phone = phone,
                                          !.password = password,
                                          !.locked_on_entry =
                                              LockedNow(phone),
                                          !.expired_on_entry =
                                              LockExpiredNow(phone)]]
                    /\ UNCHANGED <<outcome, lock_seen>>
    /\ UNCHANGED <<now, ret, streak, users, users_sequence, tokenVars,
                   smsVars>>

\* lines 166-179: the user is fetched and the password verified; what is
\* left is to record the result.  A row without a password hash makes
\* verify_password raise, which ends the call without recording anything.
\* The password is not used after this point.
AuthLookup(w) ==
    /\ pc[w] = "lookup"
    /\ LET f == frame[w]
           found == get_user_by_phone(users, f.phone)
           verified == IF found = << >>
                       THEN "False"
                       ELSE verify_password(f.password,
                                            found[1].password_hash)
       IN  IF verified = "AttributeError"
           THEN /\ outcome' =
                      Failure(handle_exceptions_raise(
                                  authenticate_user_except(verified)),
                              "lookup", f.phone, f.password)
                /\ pc' = [pc EXCEPT ![w] = "idle"]
                /\ frame' = [frame EXCEPT ![w] = NoFrame]
           ELSE /\ pc' = [pc EXCEPT ![w] = "record"]
                /\ frame' = [frame EXCEPT ![w] =
                      IF verified = "True"
                      THEN [f EXCEPT !.success = TRUE, !.password = "",
                                     !.user_id = found[1].id,
                                     !.role = found[1].role,
                                     !.found = TRUE]
                      ELSE [f EXCEPT !.success = FALSE, !.password = "",
                                     !.found = (found # << >>)]]
                /\ UNCHANGED outcome
    /\ UNCHANGED <<now, login_attempts, ret, streak, users, users_sequence,
                   lock_seen,
                   tokenVars, smsVars>>

\* record_login_attempt, lines 35-55: on success the whole of it, and
\* authenticate_user returns (user id, role); on failure up to the read of
\* failed_count that `+= 1` makes
AuthRecord(w) ==
    /\ pc[w] = "record"
    /\ LET f == frame[w]
           before == IF f.phone \in DOMAIN login_attempts
                     THEN login_attempts[f.phone].failed_count
                     ELSE 0
       IN  /\ login_attempts' = record_login_attempt_enter(login_attempts,
                                    f.phone, f.success, now)
           /\ IF f.success
              THEN /\ outcome' =
                         [NoOutcome EXCEPT !.kind = "ok", !.stage = "record",
                                           !.phone = f.phone,
                                           !.user_id = f.user_id,
                                           !.role = f.role,
                                           !.locked_on_entry =
                                               f.locked_on_entry,
                                           !.failed_before = before,
                                           !.failed_after = 0,
                                           !.found = TRUE,
                                           !.expired_on_entry =
                                               f.expired_on_entry]
                   /\ pc' = [pc EXCEPT ![w] = "idle"]
                   /\ frame' = [frame EXCEPT ![w] = NoFrame]
              ELSE /\ pc' = [pc EXCEPT ![w] = "store"]
                   /\ frame' = [frame EXCEPT ![w] =
                         [f EXCEPT !.read_count =
                                       login_attempts'[f.phone].failed_count,
                                   !.current_time = now]]
                   /\ UNCHANGED outcome
    /\ UNCHANGED <<now, ret, streak, users, users_sequence, lock_seen,
                   tokenVars,
                   smsVars>>

\* record_login_attempt, lines 55-64: the incremented count is stored and the
\* account locked at the threshold; authenticate_user then raises
\* AuthenticationException
AuthStore(w) ==
    /\ pc[w] = "store"
    /\ LET f == frame[w] IN
       /\ login_attempts' = record_login_attempt_store(login_attempts,
                                f.phone, f.read_count, f.current_time)
       /\ outcome' =
             [Failure(raise_authentication_failed, "record", f.phone, "")
              EXCEPT !.locked_on_entry = f.locked_on_entry,
                     !.expired_on_entry = f.expired_on_entry,
                     !.found = f.found,
                     !.message = authentication_failed_message(f.found),
                     !.failed_before = login_attempts[f.phone].failed_count,
                     !.failed_after = login_attempts'[f.phone].failed_count]
    /\ pc' = [pc EXCEPT ![w] = "idle"]
    /\ frame' = [frame EXCEPT ![w] = NoFrame]
    /\ UNCHANGED <<now, ret, streak, users, users_sequence, lock_seen,
                   tokenVars,
                   smsVars>>

\* ------------------------------------------------------------------------
\* Tokens (auth_service.py, security_service.py, main.py)
\* ------------------------------------------------------------------------
\* A token string is a signed JWT ("jwt"), a string that is not a JWT
\* ("garbage") or the empty string ("").
NoPayload == [user_id |-> 0, role |-> "", exp |-> 0, iat |-> 0]
EmptyToken == [text |-> "", payload |-> NoPayload, key |-> ""]
GarbageToken == [text |-> "garbage", payload |-> NoPayload, key |-> ""]

\* jwt.encode(payload, key, algorithm="HS256")
jwt_encode(payload, key) == [text |-> "jwt", payload |-> payload, key |-> key]

\* jwt.decode(token, key, algorithms=[...]): the format and the signature are
\* checked before the exp claim
jwt_decode(token, key, current_time) ==
    IF token.text # "jwt"
    THEN [raised |-> "DecodeError", payload |-> NoPayload]
    ELSE IF token.key # key
         THEN [raised |-> "InvalidSignatureError", payload |-> NoPayload]
         ELSE IF token.payload.exp <= current_time
              THEN [raised |-> "ExpiredSignatureError", payload |-> NoPayload]
              ELSE [raised |-> "none", payload |-> token.payload]

\* the subclasses of jwt.InvalidTokenError other than ExpiredSignatureError
InvalidTokenErrors == {"DecodeError", "InvalidSignatureError"}

\* hashlib.sha256(token.encode()).hexdigest(), taken as free of collisions
token_hash(token) == <<"sha256", token>>

\* security_service.py lines 135-136
add_token_to_blacklist(blacklist, token) == blacklist \cup {token_hash(token)}

\* security_service.py lines 150-151
is_token_blacklisted(blacklist, token) == token_hash(token) \in blacklist

\* The jwt_blacklist table: absent until the first token is persisted, then
\* rows (token_hash UNIQUE, created_at).
NoTable == [exists |-> FALSE, rows |-> {}]

\* _persist_blacklist_token, lines 159-178: CREATE TABLE IF NOT EXISTS, then
\* INSERT OR IGNORE of (token_hash, int(time.time())), committed
persist_blacklist_token(table, hash, current_time) ==
    [exists |-> TRUE,
     rows |-> IF \E r \in table.rows : r.token_hash = hash
              THEN table.rows
              ELSE table.rows \cup {[token_hash |-> hash,
                                     created_at |-> current_time]}]

\* db_manager.execute_query("SELECT token_hash FROM jwt_blacklist",
\* fetch_all=True): each row as the dictionary dict(row)
select_token_hash(table) == {("token_hash" :> r.token_hash) : r \in table.rows}

\* `for (token_hash,) in results`: unpacking a dictionary of one entry binds
\* the name to its key
unpack_single(dict) == CHOOSE k \in DOMAIN dict : TRUE

\* A member of _jwt_blacklist is a string: a hex digest is written
\* <<"sha256", token>> (token_hash), any other string <<"str", ...>> with the
\* text in the place of the token.
plain_string(text) ==
    <<"str", [text |-> text, payload |-> NoPayload, key |-> ""]>>

\* load_blacklist_from_db, lines 185-194
load_blacklist_from_db(blacklist, table) ==
    IF ~table.exists
    THEN blacklist
    ELSE blacklist
         \cup {plain_string(unpack_single(row)) :
                  row \in select_token_hash(table)}

\* line 208: `int(time.time() - (max_age_days * 24 * 3600))`
cutoff_time(max_age_days, current_time) ==
    current_time - max_age_days * 24 * 3600

\* cleanup_expired_blacklist, lines 205-217: the jwt_blacklist table
\* afterwards.  The DELETE is run through execute_query with its default
\* fetch_all, which returns the empty list of fetchall() and does not commit;
\* `deleted_count > 0` then raises TypeError, which the method prints.  The
\* rows are gone for good only when a later statement on the same
\* connection commits (committed); the set _jwt_blacklist is not touched.
cleanup_expired_blacklist(table, max_age_days, current_time, committed) ==
    IF ~table.exists
    THEN table
    ELSE IF committed
         THEN [table EXCEPT !.rows =
                  {r \in @ : ~(r.created_at
                                  < cutoff_time(max_age_days, current_time))}]
         ELSE table

\* logger.log_security_event(event_type, severity, user_id, phone, details)
\* called with these keyword arguments
log_security_event_call(keywords) ==
    IF keywords \subseteq {"event_type", "severity", "user_id", "phone",
                           "details"}
    THEN "none"
    ELSE "TypeError"

\* TokenBlacklistedException.__init__(self, details=None)
TokenBlacklistedException_init(positional) ==
    IF positional \in {0, 1} THEN "TokenBlacklistedException" ELSE "TypeError"

\* UserNotFoundException.__init__(self, identifier, details=None)
UserNotFoundException_init(positional) ==
    IF positional \in {1, 2} THEN "UserNotFoundException" ELSE "TypeError"

\* the error_code each exception class carries (exceptions.py)
error_code_of(class) ==
    CASE class = "DatabaseException" -> "DATABASE_ERROR"
      [] class = "AuthenticationException" -> "AUTHENTICATION_ERROR"
      [] class = "AuthorizationException" -> "AUTHORIZATION_ERROR"
      [] class = "ValidationException" -> "VALIDATION_ERROR"
      [] class \in {"SecurityException", "AccountLockedException",
                    "TokenBlacklistedException"} -> "SECURITY_ERROR"
      [] class = "SMSException" -> "SMS_ERROR"
      [] class = "ConfigurationException" -> "CONFIGURATION_ERROR"
      [] class = "RateLimitException" -> "RATE_LIMIT_ERROR"
      [] class = "UserNotFoundException" -> "USER_NOT_FOUND"
      [] class = "DuplicateUserException" -> "DUPLICATE_USER"
      [] OTHER -> "UNKNOWN_ERROR"

\* handle_exceptions() with return_dict=True: the error_code of the
\* dictionary returned for an exception that leaves the function
handle_exceptions_dict(raised) ==
    IF raised \in UserManagementExceptions
    THEN error_code_of(raised)
    ELSE "INTERNAL_ERROR"

\* generate_jwt_token, lines 214-221
generate_jwt_token(user_id, role, current_time) ==
    jwt_encode([user_id |-> user_id, role |-> role,
                exp |-> current_time + JWT_EXPIRATION_HOURS * 3600,
                iat |-> current_time],
               JWT_SECRET_KEY)

\* verify_jwt_token, lines 319-327: each handler raises
\* AuthenticationException(..., error_code=...)
verify_jwt_token_except(raised) ==
    IF raised = "ExpiredSignatureError"
    THEN AuthenticationException_init(1, {"error_code"})
    ELSE IF raised \in InvalidTokenErrors
         THEN AuthenticationException_init(1, {"error_code"})
         ELSE AuthenticationException_init(1, {"error_code"})

NoData == [user_id |-> 0, role |-> ""]

\* verify_jwt_token, lines 285-327: the exception that leaves the function
\* ("none" when it returns) and the user data returned
verify_jwt_token(token, blacklist, table, current_time) ==
    IF token.text = ""
    THEN [raised |-> "ValidationException", data |-> NoData]
    ELSE IF is_token_blacklisted(blacklist, token)
         THEN LET logged == log_security_event_call({"event_type",
                                                     "token_hash"})
                  thrown == IF logged = "none"
                            THEN TokenBlacklistedException_init(1)
                            ELSE logged
              IN  [raised |-> verify_jwt_token_except(thrown),
                   data |-> NoData]
         ELSE LET d == jwt_decode(token, JWT_SECRET_KEY, current_time) IN
              IF d.raised # "none"
              THEN [raised |-> verify_jwt_token_except(d.raised),
                    data |-> NoData]
              ELSE IF "phone" \notin DOMAIN d.payload
                   THEN [raised |-> verify_jwt_token_except("KeyError"),
                         data |-> NoData]
                   ELSE LET found == get_user_by_phone(table,
                                                       d.payload["phone"])
                        IN  IF found = << >>
                            THEN [raised |-> verify_jwt_token_except(
                                               UserNotFoundException_init(1)),
                                  data |-> NoData]
                            ELSE [raised |-> "none",
                                  data |-> [user_id |-> found[1].id,
                                            role |-> found[1].role]]

\* a faulty build whose handler turns an expired token away
logout_expired_refused(token, blacklist, table, current_time) ==
    [raised |-> AuthenticationException_init(1, {"error_code"}),
     blacklist |-> blacklist, table |-> table]

\* logout_user, lines 363-367, the ExpiredSignatureError handler: the token
\* is blacklisted all the same and the logout succeeds
logout_expired(token, blacklist, table, current_time) ==
    [raised |-> "none",
     blacklist |-> add_token_to_blacklist(blacklist, token),
     table |-> persist_blacklist_token(table, token_hash(token),
                                       current_time)]

\* a faulty build whose handler blacklists the token it could not decode
logout_invalid_blacklists(token, blacklist, table, current_time) ==
    [raised |-> AuthenticationException_init(1, {"error_code"}),
     blacklist |-> add_token_to_blacklist(blacklist, token),
     table |-> persist_blacklist_token(table, token_hash(token),
                                       current_time)]

\* logout_user, lines 368-370, the InvalidTokenError handler:
\* `raise AuthenticationException('...', error_code='invalid_token')`, the
\* blacklist untouched
logout_invalid(token, blacklist, table, current_time) ==
    [raised |-> AuthenticationException_init(1, {"error_code"}),
     blacklist |-> blacklist, table |-> table]

\* logout_user, lines 345-373: the exception that leaves the function, and
\* the blacklist and its table afterwards (add_token_to_blacklist, lines
\* 135-139, adds the hash to the set and persists it)
logout_user(token, blacklist, table, current_time) ==
    IF token.text = ""
    THEN [raised |-> "ValidationException", blacklist |-> blacklist,
          table |-> table]
    ELSE LET d == jwt_decode(token, JWT_SECRET_KEY, current_time) IN
         IF d.raised = "none"
         THEN [raised |-> "none",
               blacklist |-> add_token_to_blacklist(blacklist, token),
               table |-> persist_blacklist_token(table, token_hash(token),
                                                 current_time)]
         ELSE IF d.raised = "ExpiredSignatureError"
              THEN logout_expired(token, blacklist, table, current_time)
              ELSE logout_invalid(token, blacklist, table, current_time)

\* An Authorization header is absent or is a string; split() gives its parts.
NoHeader == [given |-> FALSE, parts |-> << >>]
Header(parts) == [given |-> TRUE, parts |-> parts]

\* get_current_user_payload, lines 239-265: the status of the HTTPException
\* raised (0 when the payload is returned) and the payload
get_current_user_payload(authorization, current_time) ==
    IF ~authorization.given
    THEN [status |-> 401, payload |-> NoPayload]
    ELSE IF Len(authorization.parts) # 2
         THEN [status |-> 401, payload |-> NoPayload]
         ELSE IF authorization.parts[1] \notin {"bearer", "Bearer", "BEARER"}
              THEN [status |-> 401, payload |-> NoPayload]
              ELSE LET d == jwt_decode(authorization.parts[2],
                                       JWT_SECRET_KEY, current_time)
                   IN  IF d.raised # "none"
                       THEN [status |-> 401, payload |-> NoPayload]
                       ELSE IF d.payload.user_id = 0 \/ d.payload.role = ""
                            THEN [status |-> 401, payload |-> NoPayload]
                            ELSE [status |-> 0, payload |-> d.payload]

\* main.py line 840: current_user.get("token")
payload_get_token(payload) ==
    IF "token" \in DOMAIN payload THEN <<payload["token"]>> ELSE << >>

\* ------------------------------------------------------------------------
\* Token operations as the server runs them
\* ------------------------------------------------------------------------
NoVerdict == [op |-> "none", token |-> EmptyToken, raised |-> "none",
              error_code |-> "none", status |-> 0, user_id |-> 0,
              role |-> "", expired |-> FALSE, signed |-> FALSE,
              revoked |-> FALSE, account |-> FALSE, max_age_days |-> -1]

\* what holds of a token when an operation is applied to it
Facts(op, token) ==
    [NoVerdict EXCEPT !.op = op, !.token = token,
                      !.expired = (token.payload.exp <= now),
                      !.signed = (token.text = "jwt"
                                  /\ token.key = JWT_SECRET_KEY),
                      !.revoked = (token \in logged_out),
                      !.account = (\E p \in DOMAIN users :
                                      users[p].id = token.payload.user_id)]

\* the token strings a client may present: the tokens handed out, the same
\* payloads signed with another key, a string that is no JWT, and ""
Forged(token) == [token EXCEPT !.key = "attacker-key"]
TokenInputs ==
    issued \cup {Forged(t) : t \in issued} \cup {EmptyToken, GarbageToken}

HeaderInputs ==
    {NoHeader}
    \cup {Header(<<"Bearer", t>>) : t \in TokenInputs}
    \cup {Header(<<"Basic", t>>) : t \in TokenInputs}
    \cup {Header(<<t>>) : t \in TokenInputs}

\* the token a header carries, if it has the two parts of "<scheme> <token>"
Carried(authorization) ==
    IF authorization.given /\ Len(authorization.parts) = 2
    THEN authorization.parts[2]
    ELSE EmptyToken

TokenTick ==
    /\ now + TokenTickSeconds <= MaxTokenTime
    /\ now' = now + TokenTickSeconds
    /\ UNCHANGED <<login_attempts, ret, streak, authVars, tokenVars,
                   smsVars>>

\* authenticate_user, lines 155-191, run without interruption: the exception
\* raised ("none" when (user id, role) is returned) and the attempt table
\* afterwards
authenticate_user(attempts, table, phone_number, password, current_time) ==
    IF phone_number = "" \/ password = ""
    THEN [raised |-> handle_exceptions_raise("ValidationException"),
          user_id |-> 0, role |-> "", attempts |-> attempts]
    ELSE LET r == is_account_locked(attempts, phone_number, current_time) IN
         IF r.locked
         THEN [raised |-> raise_account_locked, user_id |-> 0, role |-> "",
               attempts |-> r.attempts]
         ELSE LET found == get_user_by_phone(table, phone_number)
                  verified == IF found = << >>
                              THEN "False"
                              ELSE verify_password(password,
                                                   found[1].password_hash)
              IN  IF verified = "AttributeError"
                  THEN [raised |-> handle_exceptions_raise(
                                     authenticate_user_except(verified)),
                        user_id |-> 0, role |-> "", attempts |-> r.attempts]
                  ELSE IF verified = "True"
                       THEN [raised |-> "none", user_id |-> found[1].id,
                             role |-> found[1].role,
                             attempts |-> record_login_attempt(r.attempts,
                                 phone_number, TRUE, current_time)]
                       ELSE [raised |-> raise_authentication_failed,
                             user_id |-> 0, role |-> "",
                             attempts |-> record_login_attempt(r.attempts,
                                 phone_number, FALSE, current_time)]

\* POST /api/v1/login/password, main.py lines 113-149: the (user id, role)
\* that authenticate_user returns goes to generate_jwt_token, and the token
\* to the client; an exception of authenticate_user is raised again
LoginWithPassword(phone, password) ==
    LET a == authenticate_user(login_attempts, users, phone, password, now)
        token == generate_jwt_token(a.user_id, a.role, now)
    IN  /\ a.raised = "none" =>
               (token \in issued \/ Cardinality(issued) < MaxTokens)
        /\ login_attempts' = a.attempts
        /\ issued' = IF a.raised = "none"
                     THEN issued \cup {token}
                     ELSE issued
        /\ verdict' = [Facts("login_with_password",
                             IF a.raised = "none" THEN token ELSE EmptyToken)
                       EXCEPT !.raised = a.raised,
                              !.user_id = a.user_id,
                              !.role = a.role]
        /\ UNCHANGED <<now, ret, streak, authVars, jwt_blacklist,
                       logged_out, jwt_blacklist_table, smsVars>>

VerifyJwtToken(token) ==
    /\ LET r == verify_jwt_token(token, jwt_blacklist, users, now) IN
       verdict' = [Facts("verify_jwt_token", token)
                   EXCEPT !.raised = r.raised,
                          !.error_code = IF r.raised = "none"
                                         THEN "none"
                                         ELSE handle_exceptions_dict(r.raised),
                          !.user_id = r.data.user_id,
                          !.role = r.data.role]
    /\ UNCHANGED <<now, login_attempts, ret, streak, authVars, issued,
                   jwt_blacklist, logged_out, jwt_blacklist_table, smsVars>>

LogoutUser(token) ==
    /\ LET r == logout_user(token, jwt_blacklist, jwt_blacklist_table, now) IN
       /\ jwt_blacklist' = r.blacklist
       /\ jwt_blacklist_table' = r.table
       /\ logged_out' = IF r.raised = "none"
                        THEN logged_out \cup {token}
                        ELSE logged_out
       /\ verdict' = [Facts("logout_user", token)
                      EXCEPT !.raised = r.raised,
                             !.error_code =
                                 IF r.raised = "none"
                                 THEN "none"
                                 ELSE handle_exceptions_dict(r.raised)]
    /\ UNCHANGED <<now, login_attempts, ret, streak, authVars, issued,
                   smsVars>>

\* the retention windows cleanup_expired_blacklist is called with (30 is
\* the default)
RetentionDays == {0, 1, 30}

CleanupExpiredBlacklist(max_age_days, committed) ==
    /\ jwt_blacklist_table' =
           cleanup_expired_blacklist(jwt_blacklist_table, max_age_days, now,
                                     committed)
    /\ verdict' = [NoVerdict EXCEPT !.op = "cleanup_expired_blacklist",
                                    !.max_age_days = max_age_days]
    /\ UNCHANGED <<now, login_attempts, ret, streak, authVars, issued,
                   jwt_blacklist, logged_out, smsVars>>

\* a request to an endpoint that depends on get_current_user_payload
ProtectedRequest(authorization) ==
    /\ LET r == get_current_user_payload(authorization, now) IN
       verdict' = [Facts("get_current_user_payload", Carried(authorization))
                   EXCEPT !.status = IF r.status = 0 THEN 200 ELSE r.status,
                          !.user_id = r.payload.user_id,
                          !.role = r.payload.role]
    /\ UNCHANGED <<now, login_attempts, ret, streak, authVars, issued,
                   jwt_blacklist, logged_out, jwt_blacklist_table, smsVars>>

\* POST /api/v1/logout, main.py lines 832-849: logout_user is called with the
\* "token" entry of the decoded payload, when there is one; what logout_user
\* returns is not looked at
HttpLogout(authorization) ==
    /\ LET r == get_current_user_payload(authorization, now)
           token == payload_get_token(r.payload)
           out == IF r.status = 0 /\ token # << >>
                  THEN logout_user(token[1], jwt_blacklist,
                                   jwt_blacklist_table, now)
                  ELSE [raised |-> "skipped", blacklist |-> jwt_blacklist,
                        table |-> jwt_blacklist_table]
       IN  /\ jwt_blacklist' = out.blacklist
           /\ jwt_blacklist_table' = out.table
           /\ logged_out' = IF out.raised = "none"
                            THEN logged_out \cup {token[1]}
                            ELSE logged_out
           /\ verdict' = [Facts("logout", Carried(authorization))
                          EXCEPT !.status = IF r.status = 0
                                            THEN 200
                                            ELSE r.status,
                                 !.user_id = r.payload.user_id,
                                 !.role = r.payload.role]
    /\ UNCHANGED <<now, login_attempts, ret, streak, authVars, issued,
                   smsVars>>

\* ------------------------------------------------------------------------
\* The users table (database_setup.py) and create_new_user (auth_service.py)
\* ------------------------------------------------------------------------
\* handle_database_errors: DatabaseException passes, every other exception
\* is replaced by DatabaseException
handle_database_errors(raised) ==
    IF raised = "none" THEN "none" ELSE "DatabaseException"

\* the NOT NULL and CHECK clauses of the users table, lines 43-47
users_row_accepted(row) ==
    /\ row.password_hash # NoneHash
    /\ row.role \in {"SuperAdmin", "Admin", "Student", "Teacher"}
    /\ row.status \in {"Active", "Inactive"}

\* id INTEGER PRIMARY KEY AUTOINCREMENT: one more than the largest id the
\* table has ever held, the ids of deleted rows included
next_user_id(sequence) == sequence + 1

\* the largest id ever held, once the table has become `table`
sqlite_sequence(sequence, table) ==
    LET ids == {table[p].id : p \in DOMAIN table} \cup {sequence} IN
    CHOOSE m \in ids : \A i \in ids : i <= m

\* db_manager.execute_query(insert_query, params) with its default
\* fetch_all=True, lines 113-140: a row the table refuses raises
\* sqlite3.IntegrityError, which becomes DatabaseException; for a row it takes,
\* fetchall() gives the empty list and the insert is left uncommitted on the
\* connection of the thread
execute_insert_user(table, row) ==
    IF row.phone_number \in DOMAIN table \/ ~users_row_accepted(row)
    THEN [raised |-> "DatabaseException", result |-> << >>, table |-> table]
    ELSE [raised |-> "none", result |-> << >>,
          table |-> table @@ (row.phone_number :> row)]

\* DuplicateUserException.__init__(self, identifier, details=None)
DuplicateUserException_init(positional) ==
    IF positional \in {1, 2} THEN "DuplicateUserException" ELSE "TypeError"

\* a missing password argument
NoPassword == ""

\* create_new_user, lines 85-134: the exception raised, the user returned
\* and the users table afterwards
create_new_user(table, sequence, phone_number, password, role) ==
    IF is_blank(phone_number)
    THEN [raised |-> handle_database_errors("ValidationException"),
          user |-> << >>, table |-> table]
    ELSE IF get_user_by_phone(table, phone_number) # << >>
         THEN [raised |-> handle_database_errors(
                              DuplicateUserException_init(1)),
               user |-> << >>, table |-> table]
         ELSE LET row == [id |-> next_user_id(sequence),
                          phone_number |-> phone_number,
                          password_hash |-> IF password = NoPassword
                                            THEN NoneHash
                                            ELSE hash_password(password),
                          role |-> role,
                          status |-> "active"]
                  inserted == execute_insert_user(table, row)
              IN  IF inserted.raised # "none"
                  THEN [raised |-> handle_database_errors(inserted.raised),
                        user |-> << >>, table |-> inserted.table]
                  ELSE IF inserted.result = << >>
                       THEN [raised |-> handle_database_errors(
                                            "DatabaseException"),
                             user |-> << >>, table |-> inserted.table]
                       ELSE [raised |-> "none",
                             user |-> get_user_by_phone(inserted.table,
                                                        phone_number),
                             table |-> inserted.table]

\* ------------------------------------------------------------------------
\* create_user and delete_user (user_crud_service.py)
\* ------------------------------------------------------------------------
\* the statuses a client may ask for (UserCreateValidation checks the role,
\* not the status)
StatusInputs == {"Active", "Suspended"}

\* create_user, lines 93-166: the exception raised and the users table
\* afterwards.  A phone already in the table is refused; a row the table
\* refuses raises sqlite3.IntegrityError, which leaves as
\* UserManagementException.
create_user(table, sequence, phone_number, password, role, status) ==
    IF phone_number \in DOMAIN table
    THEN [raised |-> "ValidationException", table |-> table]
    ELSE LET row == [id |-> next_user_id(sequence),
                     phone_number |-> phone_number,
                     password_hash |-> hash_password(password),
                     role |-> role,
                     status |-> status]
         IN  IF users_row_accepted(row)
             THEN [raised |-> "none", table |-> table @@ (phone_number :> row)]
             ELSE [raised |-> "UserManagementException", table |-> table]

\* delete_user, lines 295-345: the exception raised and the users table
\* afterwards.  The soft delete is `UPDATE users SET status = 'Deleted'`,
\* which the CHECK clause of the table refuses; the hard delete removes the
\* row.
delete_user(table, user_id, soft_delete) ==
    LET found == {p \in DOMAIN table : table[p].id = user_id} IN
    IF found = {}
    THEN [raised |-> "ValidationException", table |-> table]
    ELSE LET phone == CHOOSE p \in found : TRUE
             updated == [table[phone] EXCEPT !.status = "Deleted"]
         IN  IF table[phone].role = "SuperAdmin"
             THEN [raised |-> "ValidationException", table |-> table]
             ELSE IF soft_delete
                  THEN IF users_row_accepted(updated)
                       THEN [raised |-> "none",
                             table |-> [table EXCEPT ![phone] = updated]]
                       ELSE [raised |-> "UserManagementException",
                             table |-> table]
                  ELSE [raised |-> "none",
                        table |-> [p \in DOMAIN table \ {phone} |->
                                      table[p]]]

\* create_user with the default role
CreateUser(phone, password, status) ==
    /\ users_sequence < MaxUserId
    /\ LET r == create_user(users, users_sequence, phone, password, "Student",
                            status)
       IN  /\ users' = r.table
           /\ users_sequence' = sqlite_sequence(users_sequence, r.table)
           /\ verdict' = [NoVerdict EXCEPT !.op = "create_user",
                                           !.raised = r.raised,
                                           !.user_id =
                                               IF r.raised = "none"
                                               THEN r.table[phone].id
                                               ELSE 0]
    /\ UNCHANGED <<guardVars, pc, frame, outcome, lock_seen, issued,
                   jwt_blacklist, logged_out, jwt_blacklist_table, smsVars>>

DeleteUser(user_id, soft_delete) ==
    /\ LET r == delete_user(users, user_id, soft_delete) IN
       /\ users' = r.table
       /\ verdict' = [NoVerdict EXCEPT !.op = IF soft_delete
                                              THEN "soft_delete_user"
                                              ELSE "hard_delete_user",
                                       !.raised = r.raised,
                                       !.user_id = user_id]
    /\ UNCHANGED <<guardVars, users_sequence, pc, frame, outcome, lock_seen,
                   issued, jwt_blacklist, logged_out, jwt_blacklist_table,
                   smsVars>>

\* ------------------------------------------------------------------------
\* SMS one-time codes (sms_service.py)
\* ------------------------------------------------------------------------
SMS_CODE_EXPIRY_SECONDS == 300
SMS_RATE_LIMIT_SECONDS == 60
SMS_CODE_PREFIX == "sms_code:"
RATE_LIMIT_PREFIX == "rate_limit:"

\* time.time() when the clock of the model reads 0
ServerStartTime == 1700000000
time_time == ServerStartTime + now

\* the values of random.randint(100000, 999999) that are followed, and the
\* codes a client may send
Codes == {"123456", "654321"}
ClientCodes == Codes \cup {""}
\* the phones that overlapping verify_sms_and_login calls are made for
SmsRacePhones == {SUPER_ADMIN_PHONE}

\* TEMP_STORAGE is a dictionary; the key PREFIX + phone_number is written
\* <<PREFIX, phone_number>>.  None is written NoCode.
NoCode == ""
storage_get(storage, key, default) ==
    IF key \in DOMAIN storage THEN storage[key] ELSE default
storage_set(storage, key, value) ==
    [k \in DOMAIN storage \cup {key} |->
        IF k = key THEN value ELSE storage[k]]

\* `del TEMP_STORAGE[key]` of a build that tolerates a missing key
storage_del_quiet(storage, key) ==
    [raised |-> "none",
     storage |-> [k \in DOMAIN storage \ {key} |-> storage[k]]]

\* `del TEMP_STORAGE[key]`: KeyError when the key is missing
storage_del(storage, key) ==
    IF key \in DOMAIN storage
    THEN [raised |-> "none",
          storage |-> [k \in DOMAIN storage \ {key} |-> storage[k]]]
    ELSE [raised |-> "KeyError", storage |-> storage]

\* a faulty build of line 108 that deletes the key of the other prefix
consume_code_other_key(storage, phone_number) ==
    storage_del(storage, <<RATE_LIMIT_PREFIX, phone_number>>)

\* line 108: `del TEMP_STORAGE[SMS_CODE_PREFIX + phone_number]`
consume_code(storage, phone_number) ==
    storage_del(storage, <<SMS_CODE_PREFIX, phone_number>>)

\* RateLimitException.__init__(self, message, retry_after=None, details=None)
RateLimitException_init(positional) ==
    IF positional \in {1, 2, 3} THEN "RateLimitException" ELSE "TypeError"

\* the messages of the exceptions sms_service raises
MessageEmptyInput == "phone number and code must not be empty"
MessageRateLimited == "wait before sending again"
MessageCodeMissing == "verification code does not exist or has expired"
MessageCodeWrong == "verification code is wrong"
MessageInternal == "internal error"

\* a faulty build of lines 60-61 that stores the code without the time
send_store_code_only(storage, phone_number, code, current_time) ==
    storage_set(storage, <<SMS_CODE_PREFIX, phone_number>>, code)

\* lines 60-61
send_store(storage, phone_number, code, current_time) ==
    storage_set(
        storage_set(storage, <<SMS_CODE_PREFIX, phone_number>>, code),
        <<RATE_LIMIT_PREFIX, phone_number>>, current_time)

\* send_verification_code, lines 37-69, with the code random.randint gave:
\* the exception raised, its message and TEMP_STORAGE afterwards
send_verification_code(storage, phone_number, code, current_time) ==
    IF phone_number = ""
    THEN [raised |-> "ValidationException", message |-> MessageEmptyInput,
          storage |-> storage]
    ELSE LET last_sent_time ==
                 storage_get(storage, <<RATE_LIMIT_PREFIX, phone_number>>, 0)
         IN  IF current_time - last_sent_time < SMS_RATE_LIMIT_SECONDS
             THEN [raised |-> RateLimitException_init(1),
                   message |-> MessageRateLimited, storage |-> storage]
             ELSE LET stored == send_store(storage, phone_number, code,
                                           current_time)
                      logged == log_security_event_call({"event_type",
                                                         "phone"})
                  IN  IF logged = "none"
                      THEN [raised |-> "none", message |-> "none",
                            storage |-> stored]
                      ELSE [raised |-> "SMSException",
                            message |-> MessageInternal, storage |-> stored]

NoUser == [user_id |-> 0, phone_number |-> "", role |-> ""]

\* verify_sms_and_login, lines 106-145, entered once the stored code has
\* matched: the exception raised, the token and user returned, and
\* TEMP_STORAGE and the users table afterwards
verify_sms_and_login_finish(storage, table, sequence, phone_number, current_time) ==
    LET deleted == consume_code(storage, phone_number)
        found == get_user_by_phone(table, phone_number)
        created == create_new_user(table, sequence, phone_number, NoPassword,
                                   "Student")
    IN  IF deleted.raised # "none"
        THEN [raised |-> deleted.raised, token |-> EmptyToken,
              user |-> NoUser, storage |-> deleted.storage, table |-> table]
        ELSE IF found # << >>
             THEN [raised |-> log_security_event_call({"event_type", "phone",
                                                       "user_id"}),
                   token |-> generate_jwt_token(found[1].id, found[1].role,
                                                current_time),
                   user |-> [user_id |-> found[1].id,
                             phone_number |-> found[1].phone_number,
                             role |-> found[1].role],
                   storage |-> deleted.storage, table |-> table]
             ELSE IF created.raised # "none"
                  THEN [raised |-> created.raised, token |-> EmptyToken,
                        user |-> NoUser, storage |-> deleted.storage,
                        table |-> created.table]
                  ELSE [raised |-> log_security_event_call({"event_type",
                                                            "phone",
                                                            "user_id"}),
                        token |-> generate_jwt_token(created.user[1].id,
                                                     created.user[1].role,
                                                     current_time),
                        user |-> [user_id |-> created.user[1].id,
                                  phone_number |->
                                      created.user[1].phone_number,
                                  role |-> created.user[1].role],
                        storage |-> deleted.storage,
                        table |-> created.table]

\* ------------------------------------------------------------------------
\* sms_service calls as the server runs them: send_verification_code in one
\* step, verify_sms_and_login in its accesses to TEMP_STORAGE
\* ------------------------------------------------------------------------
NoSmsCall == [pc |-> "idle", phone |-> "", code |-> "", stored_code |-> NoCode,
              consumed_before |-> FALSE]

\* stage: how far the call went ("validate", "limit", "compare", "finish");
\* elapsed: for a send, the seconds since the last successful send to that
\* phone (-1 when there was none); consumed_before: for a verify, whether a
\* verify for that phone had returned a token since the last send when the
\* call began; had_account: for a verify that got past the comparison,
\* whether the users table held the phone then; age: for a verify that got
\* past the comparison, the seconds since the code it matched was sent
NoReply == [op |-> "none", stage |-> "none", phone |-> "", code |-> "",
            raised |-> "none", error_code |-> "none", message |-> "none",
            token |-> EmptyToken, user |-> NoUser, elapsed |-> -1,
            consumed_before |-> FALSE, had_account |-> FALSE, age |-> -1]

Answer(op, phone, code, raised, message) ==
    [NoReply EXCEPT !.op = op, !.phone = phone, !.code = code,
                    !.raised = raised,
                    !.error_code = IF raised = "none"
                                   THEN "none"
                                   ELSE handle_exceptions_dict(raised),
                    !.message = message]

SmsTick ==
    /\ now + SmsTickSeconds <= MaxSmsTime
    /\ now' = now + SmsTickSeconds
    /\ UNCHANGED <<login_attempts, ret, streak, authVars, tokenVars, smsVars>>

\* the clock moves by SmsLongTickSeconds while no call is in progress
SmsLongTick ==
    /\ \A w \in Workers : sms_call[w].pc = "idle"
    /\ now + SmsLongTickSeconds <= MaxSmsLongTime
    /\ now' = now + SmsLongTickSeconds
    /\ UNCHANGED <<login_attempts, ret, streak, authVars, tokenVars, smsVars>>

SendVerificationCode(phone, code) ==
    LET r == send_verification_code(TEMP_STORAGE, phone, code, time_time)
    IN  /\ TEMP_STORAGE' = r.storage
        /\ accepted' = IF r.raised = "none"
                       THEN [accepted EXCEPT ![phone] = 0]
                       ELSE accepted
        /\ sent_at' = IF r.raised = "none"
                      THEN [sent_at EXCEPT ![phone] = time_time]
                      ELSE sent_at
        /\ reply' = [Answer("send_verification_code", phone, "", r.raised,
                            r.message)
                     EXCEPT !.stage = IF r.raised = "ValidationException"
                                      THEN "validate"
                                      ELSE "limit",
                            !.elapsed = IF phone # "" /\ sent_at[phone] >= 0
                                        THEN time_time - sent_at[phone]
                                        ELSE -1]
        /\ UNCHANGED <<now, login_attempts, ret, streak, authVars, tokenVars,
                       sms_call>>

\* lines 90-96: validation, then the read of the stored code
SmsVerifyRead(w, phone, code) ==
    /\ sms_call[w].pc = "idle"
    /\ IF phone = "" \/ code = ""
       THEN /\ reply' = [Answer("verify_sms_and_login", phone, code,
                                "ValidationException", MessageEmptyInput)
                         EXCEPT !.stage = "validate"]
            /\ UNCHANGED sms_call
       ELSE /\ sms_call' = [sms_call EXCEPT ![w] =
                  [pc |-> "compare", phone |-> phone, code |-> code,
                   stored_code |-> storage_get(TEMP_STORAGE,
                                       <<SMS_CODE_PREFIX, phone>>, NoCode),
                   consumed_before |-> accepted[phone] >= 1]]
            /\ UNCHANGED reply
    /\ UNCHANGED <<now, login_attempts, ret, streak, authVars, tokenVars,
                   TEMP_STORAGE, accepted, sent_at>>

\* lines 97-104: the code read is compared with the code given
SmsVerifyCompare(w) ==
    /\ sms_call[w].pc = "compare"
    /\ LET c == sms_call[w] IN
       IF c.stored_code = NoCode
       THEN /\ reply' = [Answer("verify_sms_and_login", c.phone, c.code,
                                AuthenticationException_init(1, {}),
                                MessageCodeMissing)
                         EXCEPT !.stage = "compare",
                                !.consumed_before = c.consumed_before]
            /\ sms_call' = [sms_call EXCEPT ![w] = NoSmsCall]
       ELSE IF c.stored_code # c.code
            THEN /\ reply' = [Answer("verify_sms_and_login", c.phone, c.code,
                                     AuthenticationException_init(1, {}),
                                     MessageCodeWrong)
                              EXCEPT !.stage = "compare",
                                     !.consumed_before = c.consumed_before]
                 /\ sms_call' = [sms_call EXCEPT ![w] = NoSmsCall]
            ELSE /\ sms_call' = [sms_call EXCEPT ![w].pc = "delete"]
                 /\ UNCHANGED reply
    /\ UNCHANGED <<now, login_attempts, ret, streak, authVars, tokenVars,
                   TEMP_STORAGE, accepted, sent_at>>

\* lines 106-145: the code is deleted, the user fetched or created and the
\* token made
SmsVerifyDelete(w) ==
    /\ sms_call[w].pc = "delete"
    /\ LET c == sms_call[w]
           r == verify_sms_and_login_finish(TEMP_STORAGE, users,
                                            users_sequence, c.phone, now)
       IN  /\ TEMP_STORAGE' = r.storage
           /\ users' = r.table
           /\ users_sequence' = sqlite_sequence(users_sequence, r.table)
           /\ accepted' = IF r.raised = "none"
                          THEN [accepted EXCEPT ![c.phone] = @ + 1]
                          ELSE accepted
           /\ reply' = [Answer("verify_sms_and_login", c.phone, c.code,
                               r.raised,
                               IF r.raised = "none"
                               THEN "none"
                               ELSE MessageInternal)
                        EXCEPT !.stage = "finish",
                               !.token = r.token, !.user = r.user,
                               !.consumed_before = c.consumed_before,
                               !.had_account =
                                   (get_user_by_phone(users, c.phone)
                                    # << >>),
                               !.age = time_time - sent_at[c.phone]]
    /\ sms_call' = [sms_call EXCEPT ![w] = NoSmsCall]
    /\ UNCHANGED <<now, login_attempts, ret, streak, pc, frame, outcome,
                   lock_seen, tokenVars, sent_at>>

SmsInit ==
    /\ TEMP_STORAGE = << >>
    /\ sms_call = [w \in Workers |-> NoSmsCall]
    /\ reply = NoReply
    /\ accepted = [p \in Identifiers |-> 0]
    /\ sent_at = [p \in Identifiers |-> -1]

\* ------------------------------------------------------------------------
\* Restart of the server process: the module-level objects are made again
\* (SecurityService.__init__, TEMP_STORAGE = {}), the calls in progress are
\* gone, and security_service.py line 232 loads the blacklist from the
\* database, which keeps its tables
\* ------------------------------------------------------------------------
Restart ==
    /\ login_attempts' = << >>
    /\ jwt_blacklist' = load_blacklist_from_db({}, jwt_blacklist_table)
    /\ TEMP_STORAGE' = << >>
    /\ pc' = [w \in Workers |-> "idle"]
    /\ frame' = [w \in Workers |-> NoFrame]
    /\ sms_call' = [w \in Workers |-> NoSmsCall]
    /\ verdict' = [NoVerdict EXCEPT !.op = "restart"]
    /\ UNCHANGED <<now, ret, streak, users, users_sequence, outcome,
                   lock_seen, issued,
                   logged_out, jwt_blacklist_table, reply, accepted,
                   sent_at>>

\* security_service.py line 232 runs load_blacklist_from_db when the module
\* is imported; the database has no jwt_blacklist table yet
TokenInit ==
    /\ issued = {}
    /\ jwt_blacklist_table = NoTable
    /\ jwt_blacklist = load_blacklist_from_db({}, NoTable)
    /\ logged_out = {}
    /\ verdict = NoVerdict

AuthInit ==
    /\ users = seed_super_admin
    /\ users_sequence = sqlite_sequence(0, seed_super_admin)
    /\ pc = [w \in Workers |-> "idle"]
    /\ frame = [w \in Workers |-> NoFrame]
    /\ outcome = NoOutcome
    /\ lock_seen = [i \in Identifiers |-> -1]

Init ==
    /\ GuardInit
    /\ AuthInit
    /\ TokenInit
    /\ SmsInit

\* the calls of the workers overlap freely
AuthNext ==
    \/ Tick
    \/ \E w \in Workers, phone \in RacePhones, password \in Passwords :
          AuthEnter(w, phone, password)
    \/ \E w \in Workers : AuthLookup(w)
    \/ \E w \in Workers : AuthRecord(w)
    \/ \E w \in Workers : AuthStore(w)

AuthSpec == Init /\ [][AuthNext]_vars

\* each call runs to completion before the next one starts
Quiet(w) == \A v \in Workers \ {w} : pc[v] = "idle"

SeqAuthNext ==
    \/ Tick
    \/ \E w \in Workers, phone \in Identifiers, password \in Passwords :
          Quiet(w) /\ AuthEnter(w, phone, password)
    \/ \E w \in Workers : AuthLookup(w)
    \/ \E w \in Workers : AuthRecord(w)
    \/ \E w \in Workers : AuthStore(w)

SeqAuthSpec == Init /\ [][SeqAuthNext]_vars

\* overlapping calls that all carry a wrong password, the clock standing
\* still: nothing but failed attempts writes the attempt table
FailNext ==
    \/ \E w \in Workers, phone \in Identifiers \ {""} :
          AuthEnter(w, phone, "wrong-password")
    \/ \E w \in Workers : AuthLookup(w)
    \/ \E w \in Workers : AuthRecord(w)
    \/ \E w \in Workers : AuthStore(w)

FailSpec == Init /\ [][FailNext]_vars

\* accounts are created and deleted while their tokens are in use
AccountNext ==
    \/ \E status \in StatusInputs :
          CreateUser(FreshPhone, SUPER_ADMIN_PASSWORD, status)
    \/ \E user_id \in 1..MaxUserId, soft_delete \in BOOLEAN :
          DeleteUser(user_id, soft_delete)
    \/ \E phone \in Identifiers \ {""}, password \in Passwords \ {""} :
          LoginWithPassword(phone, password)
    \/ \E token \in TokenInputs : VerifyJwtToken(token)

AccountSpec == Init /\ [][AccountNext]_vars

\* password login, one request at a time, and the token operations
TokenNext ==
    \/ TokenTick
    \/ \E phone \in Identifiers, password \in Passwords :
          LoginWithPassword(phone, password)
    \/ \E token \in TokenInputs : VerifyJwtToken(token)
    \/ \E token \in TokenInputs : LogoutUser(token)
    \/ \E authorization \in HeaderInputs : ProtectedRequest(authorization)
    \/ \E authorization \in HeaderInputs : HttpLogout(authorization)

TokenSpec == Init /\ [][TokenNext]_vars

GuardNext ==
    \/ Tick
    \/ \E identifier \in Identifiers, success \in BOOLEAN :
          RecordLoginAttempt(identifier, success)
    \/ \E identifier \in Identifiers : IsAccountLocked(identifier)
    \/ \E identifier \in Identifiers : GetRemainingLockoutTime(identifier)
    \/ \E identifier \in Identifiers : ResetLoginAttempts(identifier)

GuardSpec == Init /\ [][GuardNext]_vars

\* SMS login, the verify_sms_and_login calls of the workers overlapping
SmsNext ==
    \/ SmsTick
    \/ \E phone \in SmsRacePhones, code \in Codes :
          SendVerificationCode(phone, code)
    \/ \E w \in Workers, phone \in SmsRacePhones, code \in ClientCodes :
          SmsVerifyRead(w, phone, code)
    \/ \E w \in Workers : SmsVerifyCompare(w)
    \/ \E w \in Workers : SmsVerifyDelete(w)

SmsSpec == Init /\ [][SmsNext]_vars

\* SMS login, one call at a time
SmsQuiet(w) == \A v \in Workers \ {w} : sms_call[v].pc = "idle"

SeqSmsNext ==
    \/ SmsTick
    \/ \E phone \in Identifiers, code \in Codes :
          (\A w \in Workers : sms_call[w].pc = "idle")
          /\ SendVerificationCode(phone, code)
    \/ \E w \in Workers, phone \in Identifiers, code \in ClientCodes :
          SmsQuiet(w) /\ SmsVerifyRead(w, phone, code)
    \/ \E w \in Workers : SmsVerifyCompare(w)
    \/ \E w \in Workers : SmsVerifyDelete(w)

SeqSmsSpec == Init /\ [][SeqSmsNext]_vars

\* SMS login, one call at a time, over the minutes a code is kept
ExpiryNext ==
    \/ SmsLongTick
    \/ \E phone \in Identifiers, code \in Codes :
          (\A w \in Workers : sms_call[w].pc = "idle")
          /\ SendVerificationCode(phone, code)
    \/ \E w \in Workers, phone \in Identifiers, code \in ClientCodes :
          SmsQuiet(w) /\ SmsVerifyRead(w, phone, code)
    \/ \E w \in Workers : SmsVerifyCompare(w)
    \/ \E w \in Workers : SmsVerifyDelete(w)

ExpirySpec == Init /\ [][ExpiryNext]_vars

\* logout and restart of the server
DurableNext ==
    \/ TokenTick
    \/ \E password \in Passwords :
          LoginWithPassword(SUPER_ADMIN_PHONE, password)
    \/ \E token \in TokenInputs : LogoutUser(token)
    \/ \E token \in TokenInputs : VerifyJwtToken(token)
    \/ Restart

DurableSpec == Init /\ [][DurableNext]_vars

\* logout and the cleaning of the blacklist
CleanupNext ==
    \/ TokenTick
    \/ \E password \in Passwords :
          LoginWithPassword(SUPER_ADMIN_PHONE, password)
    \/ \E token \in TokenInputs : LogoutUser(token)
    \/ \E token \in TokenInputs : VerifyJwtToken(token)
    \/ \E max_age_days \in RetentionDays, committed \in BOOLEAN :
          CleanupExpiredBlacklist(max_age_days, committed)

CleanupSpec == Init /\ [][CleanupNext]_vars

\* ------------------------------------------------------------------------
\* C1: for every identifier, is_account_locked returns true once exactly
\* MAX_LOGIN_ATTEMPTS consecutive failures have been recorded from a fresh
\* record (while the lockout set by the last of them is running), and
\* returns false after MAX_LOGIN_ATTEMPTS - 1 of them.
\* ------------------------------------------------------------------------
C1_LockedAtThreshold ==
    \A identifier \in Identifiers \ {""} :
        (ret.op = "is_account_locked" /\ ret.identifier = identifier) =>
            /\ (/\ streak[identifier] = MAX_LOGIN_ATTEMPTS
                /\ now < login_attempts[identifier].last_attempt
                           + LOGIN_LOCKOUT_MINUTES * 60)
               => ret.value = TRUE
            /\ streak[identifier] = MAX_LOGIN_ATTEMPTS - 1
               => ret.value = FALSE

C1_Witness ==
    /\ ret.op = "is_account_locked"
    /\ ret.identifier = FreshPhone
    /\ streak[FreshPhone] = MAX_LOGIN_ATTEMPTS
    /\ ret.value = TRUE

\* ------------------------------------------------------------------------
\* C2: an authenticate_user call that starts while the identifier's
\* locked_until lies in the future is refused, whatever the password: it
\* returns no (user id, role).
\* ------------------------------------------------------------------------
C2_LockedRefused ==
    outcome.locked_on_entry =>
        /\ outcome.kind # "ok"
        /\ outcome.user_id = 0
        /\ outcome.role = ""

C2_Witness ==
    /\ outcome.locked_on_entry
    /\ outcome.phone = SUPER_ADMIN_PHONE
    /\ outcome.password = SUPER_ADMIN_PASSWORD
    /\ outcome.kind # "ok"

\* ------------------------------------------------------------------------
\* C3: once MAX_LOGIN_ATTEMPTS wrong-password attempts have locked the
\* phone, an attempt made before the lockout expires fails with
\* AccountLockedException, also when its password is the right one.
\* ------------------------------------------------------------------------
C3_LockedKind ==
    (outcome.stage = "locked" /\ outcome.locked_on_entry) =>
        outcome.kind = "AccountLockedException"

\* ------------------------------------------------------------------------
\* C4: once is_account_locked has reported an identifier locked to
\* authenticate_user, it reports it unlocked only when the lockout duration
\* has passed since that lock was set, however the calls interleave.
\* ------------------------------------------------------------------------
C4_NoEarlyUnlock ==
    [][\A w \in Workers :
          (/\ pc[w] = "idle"
           /\ pc'[w] = "lookup"
           /\ lock_seen[frame'[w].phone] >= 0)
          => now >= lock_seen[frame'[w].phone] + LOGIN_LOCKOUT_MINUTES * 60
      ]_vars

\* ------------------------------------------------------------------------
\* C5: the step that records a successful authentication leaves the
\* identifier with failed_count = 0 and locked_until = 0, whatever the count
\* was before, MAX_LOGIN_ATTEMPTS - 1 included.
\* ------------------------------------------------------------------------
C5_SuccessResets ==
    [][\A w \in Workers :
          (pc[w] = "record" /\ pc'[w] = "idle" /\ outcome'.kind = "ok")
          => /\ login_attempts'[frame[w].phone].failed_count = 0
             /\ login_attempts'[frame[w].phone].locked_until = 0
      ]_vars

C5_Witness ==
    /\ outcome.kind = "ok"
    /\ outcome.failed_before = MAX_LOGIN_ATTEMPTS - 1
    /\ login_attempts[outcome.phone].failed_count = 0

\* ------------------------------------------------------------------------
\* C6: verify_jwt_token on a token that logout_user has accepted fails with
\* TokenBlacklistedException, also when the token is signed and not expired.
\* ------------------------------------------------------------------------
C6_RevokedKind ==
    (verdict.op = "verify_jwt_token" /\ verdict.revoked) =>
        verdict.raised = "TokenBlacklistedException"

\* ------------------------------------------------------------------------
\* C7: get_current_user_payload answers 401 to a bearer token whose hash is
\* in the blacklist, also when its signature and expiry are in order.
\* ------------------------------------------------------------------------
C7_ValidatorRejectsBlacklisted ==
    (/\ verdict.op = "get_current_user_payload"
     /\ is_token_blacklisted(jwt_blacklist, verdict.token))
    => verdict.status = 401

\* ------------------------------------------------------------------------
\* C8: when POST /logout has answered with success to a request carrying a
\* valid bearer token, that token is in the blacklist.
\* ------------------------------------------------------------------------
C8_HttpLogoutBlacklists ==
    (verdict.op = "logout" /\ verdict.status = 200) =>
        is_token_blacklisted(jwt_blacklist, verdict.token)

\* ------------------------------------------------------------------------
\* C9: verify_jwt_token on an expired token that is signed with the server
\* key and was never revoked fails with AuthenticationException (token
\* expired), not with the generic internal error.
\* ------------------------------------------------------------------------
C9_ExpiredKind ==
    (/\ verdict.op = "verify_jwt_token"
     /\ verdict.expired
     /\ verdict.signed
     /\ ~verdict.revoked)
    => /\ verdict.raised = "AuthenticationException"
       /\ verdict.error_code # "INTERNAL_ERROR"

\* ------------------------------------------------------------------------
\* C10: verify_jwt_token on a token that generate_jwt_token made from the
\* (user id, role) of a successful authenticate_user succeeds and returns
\* that user id and role, as long as the token is not expired or revoked.
\* ------------------------------------------------------------------------
C10_RoundTrip ==
    (/\ verdict.op = "verify_jwt_token"
     /\ verdict.token \in issued
     /\ ~verdict.expired
     /\ ~verdict.revoked)
    => /\ verdict.raised = "none"
       /\ verdict.user_id = verdict.token.payload.user_id
       /\ verdict.role = verdict.token.payload.role

\* ------------------------------------------------------------------------
\* C18: calls made one at a time: an authenticate_user call that fails after
\* the lookup raises AuthenticationException with the same message whether
\* the phone has no user or the password is wrong, and leaves the
\* identifier's failed_count one above what it was.
\* ------------------------------------------------------------------------
C18_SameFailure ==
    (outcome.stage = "record" /\ outcome.kind # "ok") =>
        /\ outcome.kind = "AuthenticationException"
        /\ outcome.message = MessageBadCredentials
        /\ outcome.failed_after = outcome.failed_before + 1

C18_Witness ==
    /\ outcome.stage = "record"
    /\ outcome.kind = "AuthenticationException"
    /\ outcome.phone = FreshPhone
    /\ ~outcome.found
    /\ outcome.failed_after = outcome.failed_before + 1
    /\ SUPER_ADMIN_PHONE \in DOMAIN login_attempts
    /\ login_attempts[SUPER_ADMIN_PHONE].failed_count = 1

\* ------------------------------------------------------------------------
\* C19: the step in which authenticate_user refuses a call because the
\* identifier is locked changes nothing in the attempt table (failed_count,
\* last_attempt and locked_until of every identifier stay as they were),
\* reads no user, and leaves no call waiting for a lookup: the call is over.
\* ------------------------------------------------------------------------
C19_LockedTouchesNothing ==
    [][(/\ outcome'.stage = "locked"
        /\ (outcome' # outcome \/ lock_seen' # lock_seen))
       => /\ login_attempts' = login_attempts
          /\ users' = users
          /\ pc' = pc
          /\ frame' = frame
      ]_vars

C19_Witness ==
    /\ outcome.stage = "locked"
    /\ outcome.phone = SUPER_ADMIN_PHONE
    /\ outcome.password = "wrong-password"
    /\ login_attempts[SUPER_ADMIN_PHONE].failed_count = MAX_LOGIN_ATTEMPTS
    /\ login_attempts[SUPER_ADMIN_PHONE].locked_until > now
    /\ \A w \in Workers : pc[w] = "idle"

\* ------------------------------------------------------------------------
\* C20: within each authenticate_user call the lockout check comes first,
\* then the lookup, then the recording: a call starts its lookup only from
\* rest and only when is_account_locked says the identifier is not locked,
\* starts recording only after its lookup, stores the incremented count only
\* after the recording began, and a recorded outcome comes only from a call
\* that was recording.
\* ------------------------------------------------------------------------
C20_CheckLookupRecord ==
    [][\A w \in Workers :
          /\ (pc'[w] = "lookup" /\ pc[w] # "lookup")
             => /\ pc[w] = "idle"
                /\ ~is_account_locked(login_attempts, frame'[w].phone,
                                      now).locked
          /\ (pc'[w] = "record" /\ pc[w] # "record") => pc[w] = "lookup"
          /\ (pc'[w] = "store" /\ pc[w] # "store") => pc[w] = "record"
          /\ (outcome' # outcome /\ outcome'.stage = "record")
             => \E v \in Workers : /\ pc[v] \in {"record", "store"}
                                   /\ pc'[v] = "idle"
      ]_vars

C20_Witness ==
    /\ outcome.stage = "record"
    /\ outcome.kind = "ok"
    /\ outcome.user_id = 1
    /\ outcome.role = "SuperAdmin"
    /\ outcome.failed_after = 0
    /\ \A w \in Workers : pc[w] = "idle"

\* ------------------------------------------------------------------------
\* C11: when a verify_sms_and_login call has returned a token for a phone
\* and no code has been sent to that phone since, a further
\* verify_sms_and_login for that phone, with the same code or another, fails
\* at the comparison with "verification code does not exist or has expired".
\* ------------------------------------------------------------------------
C11_ConsumedCodeNotFound ==
    (reply.op = "verify_sms_and_login" /\ reply.consumed_before) =>
        /\ reply.stage = "compare"
        /\ reply.raised = "AuthenticationException"
        /\ reply.message = MessageCodeMissing
        /\ reply.token = EmptyToken

C11_Witness ==
    /\ reply.op = "verify_sms_and_login"
    /\ reply.consumed_before
    /\ reply.phone = SUPER_ADMIN_PHONE
    /\ reply.code \in Codes
    /\ reply.message = MessageCodeMissing

\* ------------------------------------------------------------------------
\* C12: however the reads, comparisons and deletions of overlapping
\* verify_sms_and_login calls interleave, at most one call returns a token
\* for each code sent to a phone.
\* ------------------------------------------------------------------------
C12_AtMostOneAccepted == \A p \in Identifiers : accepted[p] <= 1

C12_Witness ==
    /\ reply.op = "verify_sms_and_login"
    /\ reply.stage = "finish"
    /\ reply.raised = "KeyError"
    /\ accepted[reply.phone] = 1

\* ------------------------------------------------------------------------
\* C13: when only failing authenticate_user calls run, however they overlap,
\* each record_login_attempt(identifier, False) that completes leaves the
\* identifier's failed_count one above what it was just before, so k of them
\* raise it by k.
\* ------------------------------------------------------------------------
C13_NoLostIncrement ==
    [][\A w \in Workers :
          (pc[w] = "store" /\ pc'[w] = "idle")
          => login_attempts'[frame[w].phone].failed_count
               = login_attempts[frame[w].phone].failed_count + 1
      ]_vars

\* ------------------------------------------------------------------------
\* C14: a send_verification_code call made less than SMS_RATE_LIMIT_SECONDS
\* after a successful one for the same phone fails with RateLimitException.
\* ------------------------------------------------------------------------
C14_ResendRateLimited ==
    (/\ reply.op = "send_verification_code"
     /\ reply.elapsed >= 0
     /\ reply.elapsed < SMS_RATE_LIMIT_SECONDS)
    => /\ reply.raised = "RateLimitException"
       /\ reply.error_code = "RATE_LIMIT_ERROR"

C14_Witness ==
    /\ reply.op = "send_verification_code"
    /\ reply.phone = FreshPhone
    /\ reply.elapsed > 0
    /\ reply.elapsed < SMS_RATE_LIMIT_SECONDS
    /\ reply.raised = "RateLimitException"

\* ------------------------------------------------------------------------
\* C15: verify_sms_and_login with the code that was sent, for a phone the
\* users table does not hold, returns a token and a user with that phone and
\* role Student, and the users table then holds that user without a password
\* hash.
\* ------------------------------------------------------------------------
C15_FreshPhoneRegisters ==
    (/\ reply.op = "verify_sms_and_login"
     /\ reply.stage = "finish"
     /\ ~reply.had_account)
    => /\ reply.raised = "none"
       /\ reply.token # EmptyToken
       /\ reply.user.phone_number = reply.phone
       /\ reply.user.role = "Student"
       /\ reply.phone \in DOMAIN users
       /\ users[reply.phone].password_hash = NoneHash

\* ------------------------------------------------------------------------
\* C16: after a restart of the server, every token that logout_user had
\* blacklisted before is reported by is_token_blacklisted.
\* ------------------------------------------------------------------------
C16_BlacklistSurvivesRestart ==
    verdict.op = "restart" =>
        \A token \in logged_out : is_token_blacklisted(jwt_blacklist, token)

\* ------------------------------------------------------------------------
\* C21: verify_jwt_token on a token that has been logged out and is also
\* expired or not signed with the server key fails as a revoked token, with
\* TokenBlacklistedException.
\* ------------------------------------------------------------------------
C21_RevokedBeforeExpiry ==
    (/\ verdict.op = "verify_jwt_token"
     /\ verdict.revoked
     /\ (verdict.expired \/ ~verdict.signed))
    => /\ verdict.raised = "TokenBlacklistedException"
       /\ verdict.error_code = "SECURITY_ERROR"

\* ------------------------------------------------------------------------
\* C22: logout_user on a token signed with the server key that has expired
\* returns success, and the token is blacklisted afterwards.
\* ------------------------------------------------------------------------
C22_ExpiredLogoutBlacklists ==
    (verdict.op = "logout_user" /\ verdict.signed /\ verdict.expired) =>
        /\ verdict.raised = "none"
        /\ is_token_blacklisted(jwt_blacklist, verdict.token)

C22_Witness ==
    /\ verdict.op = "logout_user"
    /\ verdict.token \in issued
    /\ verdict.expired
    /\ ~verdict.revoked
    /\ verdict.raised = "none"
    /\ token_hash(verdict.token) \in jwt_blacklist

\* ------------------------------------------------------------------------
\* C23, as the claim states it: after logout_user on any token other than
\* the empty string, the token is blacklisted.
\* ------------------------------------------------------------------------
C23_LogoutAlwaysBlacklists ==
    (verdict.op = "logout_user" /\ verdict.token.text # "") =>
        is_token_blacklisted(jwt_blacklist, verdict.token)

\* C23, amended: after logout_user on a token other than the empty string,
\* the token is blacklisted exactly when it is a JWT signed with the server
\* key (expired or not), and exactly then the logout succeeds; a string that
\* is no JWT and a JWT signed with another key are refused and stay out of
\* the blacklist.
C23_LogoutBlacklistsSigned ==
    (verdict.op = "logout_user" /\ verdict.token.text # "") =>
        /\ is_token_blacklisted(jwt_blacklist, verdict.token)
              <=> verdict.signed
        /\ (verdict.raised = "none") <=> verdict.signed

C23_Witness ==
    /\ verdict.op = "logout_user"
    /\ verdict.token.text = "jwt"
    /\ ~verdict.signed
    /\ verdict.raised # "none"
    /\ ~is_token_blacklisted(jwt_blacklist, verdict.token)
    /\ jwt_blacklist # {}

\* ------------------------------------------------------------------------
\* C24: verify_jwt_token on a token that is signed with the server key, not
\* expired and not revoked, whose user id no row of the users table has any
\* more, fails with UserNotFoundException and returns no user data.
\* ------------------------------------------------------------------------
C24_MissingAccount ==
    (/\ verdict.op = "verify_jwt_token"
     /\ verdict.signed
     /\ ~verdict.expired
     /\ ~verdict.revoked
     /\ ~verdict.account)
    => /\ verdict.raised = "UserNotFoundException"
       /\ verdict.error_code = "USER_NOT_FOUND"
       /\ verdict.user_id = 0

\* ------------------------------------------------------------------------
\* C29: in every state reached by record_login_attempt, is_account_locked,
\* get_remaining_lockout_time and reset_login_attempts, every record of the
\* attempt table has locked_until = 0 exactly when its failed_count is below
\* MAX_LOGIN_ATTEMPTS.
\* ------------------------------------------------------------------------
C29_LockedIffAtThreshold ==
    \A i \in DOMAIN login_attempts :
        (login_attempts[i].locked_until = 0)
            <=> (login_attempts[i].failed_count < MAX_LOGIN_ATTEMPTS)

C29_Witness ==
    /\ ret.op = "get_remaining_lockout_time"
    /\ ret.identifier = FreshPhone
    /\ ret.value > 0
    /\ login_attempts[FreshPhone].failed_count > MAX_LOGIN_ATTEMPTS
    /\ SUPER_ADMIN_PHONE \in DOMAIN login_attempts
    /\ login_attempts[SUPER_ADMIN_PHONE].failed_count = MAX_LOGIN_ATTEMPTS - 1
    /\ login_attempts[SUPER_ADMIN_PHONE].locked_until = 0

\* ------------------------------------------------------------------------
\* C30: when authenticate_user calls do not overlap, no record's
\* failed_count exceeds MAX_LOGIN_ATTEMPTS: the call that would count one
\* more failure is refused as locked, or finds the lock expired and the
\* count reset.
\* ------------------------------------------------------------------------
C30_CountBounded ==
    \A i \in DOMAIN login_attempts :
        login_attempts[i].failed_count <= MAX_LOGIN_ATTEMPTS

C30_Witness ==
    /\ outcome.stage = "locked"
    /\ outcome.phone = FreshPhone
    /\ login_attempts[FreshPhone].failed_count = MAX_LOGIN_ATTEMPTS
    /\ login_attempts[FreshPhone].locked_until > now
    /\ \A w \in Workers : pc[w] = "idle"

\* ------------------------------------------------------------------------
\* C26: an authenticate_user call whose lockout check finds a lock that has
\* expired is not refused: the check resets the record to failed_count 0,
\* the call is decided on its credentials, and a failure it records is the
\* first of a new count (failed_count goes from 0 to 1), so that
\* MAX_LOGIN_ATTEMPTS consecutive failures are needed to lock again.
\* ------------------------------------------------------------------------
C26_ExpiredLockResets ==
    outcome.expired_on_entry =>
        /\ outcome.stage = "record"
        /\ outcome.failed_before = 0
        /\ \/ /\ outcome.kind = "ok"
              /\ outcome.failed_after = 0
           \/ /\ outcome.kind = "AuthenticationException"
              /\ outcome.failed_after = 1
              /\ ~reaches_threshold(outcome.failed_after)

C26_Witness ==
    /\ outcome.expired_on_entry
    /\ outcome.stage = "record"
    /\ outcome.phone = SUPER_ADMIN_PHONE
    /\ outcome.kind = "AuthenticationException"
    /\ outcome.failed_after = 1
    /\ login_attempts[SUPER_ADMIN_PHONE].failed_count = 1
    /\ login_attempts[SUPER_ADMIN_PHONE].locked_until = 0

\* ------------------------------------------------------------------------
\* C25: a verification code expires: a verify_sms_and_login call that gives
\* the code sent more than SMS_CODE_EXPIRY_SECONDS after that code was sent
\* fails and returns no token.
\* ------------------------------------------------------------------------
C25_StaleCodeRefused ==
    (/\ reply.op = "verify_sms_and_login"
     /\ reply.stage = "finish"
     /\ reply.age > SMS_CODE_EXPIRY_SECONDS)
    => /\ reply.raised # "none"
       /\ reply.token = EmptyToken

\* ------------------------------------------------------------------------
\* C27: a verify_sms_and_login call refused for a wrong code leaves the
\* stored code as it was and counts nothing: when the next answer for that
\* phone comes from a call that gave the stored code, that call succeeds and
\* returns a token.
\* ------------------------------------------------------------------------
C27_MismatchKeepsCode ==
    [][(/\ reply.op = "verify_sms_and_login"
        /\ reply.message = MessageCodeWrong
        /\ reply' # reply
        /\ reply'.op = "verify_sms_and_login"
        /\ reply'.phone = reply.phone
        /\ reply'.stage = "finish")
       => /\ reply'.raised = "none"
          /\ reply'.token # EmptyToken
      ]_vars

\* ------------------------------------------------------------------------
\* C28: cleanup_expired_blacklist(max_age_days) removes from the blacklist
\* exactly the entries older than the retention window: of the tokens that
\* had a row in jwt_blacklist when it ran, those whose row is older than the
\* cutoff are no longer reported by is_token_blacklisted and the others
\* still are.
\* ------------------------------------------------------------------------
C28_CleanupRemovesOlder ==
    [][(verdict'.op = "cleanup_expired_blacklist" /\ now' = now)
       => \A t \in logged_out :
             \A r \in jwt_blacklist_table.rows :
                r.token_hash = token_hash(t)
                => (is_token_blacklisted(jwt_blacklist', t)
                    <=> ~(r.created_at
                            < cutoff_time(verdict'.max_age_days, now)))
      ]_vars

====
